---- MODULE Spec2Model ----
(***************************************************************************)
(* The intent router and session state machine of the study-planner Worker *)
(* (src/cf-ai-study-buddy/src/index.js).                                   *)
(*                                                                         *)
(* JavaScript values are tagged records, objects keep their keys in        *)
(* insertion order, and strings are tuples of one-character strings so     *)
(* that the regular expressions of the router are evaluated character by   *)
(* character.                                                              *)
(***************************************************************************)
EXTENDS Integers, Sequences, FiniteSets, TLC

VARIABLES
  kv,        \* STUDY_STATE_KV: the JSON document stored under user:demo-user, or Absent
  pc,        \* per request handler: "idle", "loaded", "saving", "done", "failed"
  req,       \* per request handler: the locals of fetch() for the request in flight
  now,       \* the clock read by Date.now()
  started,   \* number of /api/chat requests begun so far
  answered,  \* history: what the most recently answered request handed to saveStudyState
  turns,     \* history: every turn appended to recentHistory so far, oldest first
  planned,   \* history: number of create_plan and revise_plan requests answered
  call,      \* direct application of one function: its name, "none" before the call
  arg,       \* direct application: the arguments
  ret        \* direct application: the value returned

vars == <<kv, pc, req, now, started, answered, turns, planned, call, arg, ret>>

\* -------------------------------------------------------------------------
\* JavaScript values
\* -------------------------------------------------------------------------

Undefined == [t |-> "undefined"]
Null == [t |-> "null"]
Bool(b) == [t |-> "bool", v |-> b]
Num(n) == [t |-> "num", v |-> n]
Str(cs) == [t |-> "str", v |-> cs]
Arr(xs) == [t |-> "arr", v |-> xs]
\* An object: its own properties as <<key, value>> pairs in insertion order.
Obj(ps) == [t |-> "obj", v |-> ps]

IsArray(x) == x.t = "arr"

\* ToBoolean
Truthy(x) ==
  CASE x.t = "undefined" -> FALSE
    [] x.t = "null" -> FALSE
    [] x.t = "bool" -> x.v
    [] x.t = "num" -> x.v # 0
    [] x.t = "str" -> Len(x.v) > 0
    [] OTHER -> TRUE

\* a || b
Or(a, b) == IF Truthy(a) THEN a ELSE b

HasKey(o, k) == o.t = "obj" /\ \E i \in 1..Len(o.v) : o.v[i][1] = k

\* o?.k : undefined on null and undefined, and for a property the value lacks.
Get(o, k) ==
  IF HasKey(o, k)
  THEN LET i == CHOOSE j \in 1..Len(o.v) : o.v[j][1] = k IN o.v[i][2]
  ELSE Undefined

\* Defining property k in an object literal: an existing key keeps its place.
Put(o, k, x) ==
  IF HasKey(o, k)
  THEN Obj([i \in 1..Len(o.v) |-> IF o.v[i][1] = k THEN <<k, x>> ELSE o.v[i]])
  ELSE Obj(Append(o.v, <<k, x>>))

RECURSIVE PutAll(_, _)
PutAll(o, ps) == IF ps = <<>> THEN o ELSE PutAll(Put(o, Head(ps)[1], Head(ps)[2]), Tail(ps))

DigitChars == <<"0", "1", "2", "3", "4", "5", "6", "7", "8", "9">>

\* String(n) for a non-negative integer: its decimal digits.
RECURSIVE Decimal(_)
Decimal(n) == IF n < 10 THEN <<DigitChars[n + 1]>> ELSE Append(Decimal(n \div 10), DigitChars[(n % 10) + 1])

\* The own enumerable properties that {...x} copies.
OwnProps(x) ==
  CASE x.t = "obj" -> x.v
    [] x.t = "arr" -> [i \in 1..Len(x.v) |-> <<ToString(i - 1), x.v[i]>>]
    [] x.t = "str" -> [i \in 1..Len(x.v) |-> <<ToString(i - 1), Str(<<x.v[i]>>)>>]
    [] OTHER -> <<>>

\* { ...a, ...b }
Spread(a, b) == PutAll(PutAll(Obj(<<>>), OwnProps(a)), OwnProps(b))

IsDefined(p) == p[2].t # "undefined"

\* JSON.stringify followed by the store's JSON parse, as the document the text
\* denotes: a property whose value is undefined is left out, an undefined array
\* element becomes null, key order is kept.
RECURSIVE JSONDocument(_)
JSONDocument(x) ==
  CASE x.t = "obj" ->
         LET kept == SelectSeq(x.v, IsDefined)
         IN Obj([i \in 1..Len(kept) |-> <<kept[i][1], JSONDocument(kept[i][2])>>])
    [] x.t = "arr" ->
         Arr([i \in 1..Len(x.v) |->
                IF x.v[i].t = "undefined" THEN Null ELSE JSONDocument(x.v[i])])
    [] OTHER -> x

\* -------------------------------------------------------------------------
\* Strings and regular expressions
\* -------------------------------------------------------------------------

UpperCase == <<"A", "B", "C", "D", "E", "F", "G", "H", "I", "J", "K", "L", "M",
               "N", "O", "P", "Q", "R", "S", "T", "U", "V", "W", "X", "Y", "Z">>
LowerCase == <<"a", "b", "c", "d", "e", "f", "g", "h", "i", "j", "k", "l", "m",
               "n", "o", "p", "q", "r", "s", "t", "u", "v", "w", "x", "y", "z">>

UpperSet == {UpperCase[i] : i \in 1..26}
LowerOfUpper == [u \in UpperSet |-> LowerCase[CHOOSE i \in 1..26 : UpperCase[i] = u]]

ToLowerChar(c) == IF c \in UpperSet THEN LowerOfUpper[c] ELSE c

\* String.prototype.toLowerCase on the characters of a string
toLowerCase(cs) == [i \in 1..Len(cs) |-> ToLowerChar(cs[i])]

\* \s
WhiteSpace == {" ", "\t", "\n", "\r"}

\* \w : [A-Za-z0-9_]
WordChars ==
  UpperSet \cup {LowerCase[i] : i \in 1..26} \cup {DigitChars[i] : i \in 1..10} \cup {"_"}

IsWordChar(c) == c \in WordChars

\* String.prototype.trim
trim(cs) ==
  IF \A i \in 1..Len(cs) : cs[i] \in WhiteSpace
  THEN <<>>
  ELSE LET first == CHOOSE i \in 1..Len(cs) :
                      cs[i] \notin WhiteSpace /\ \A j \in 1..(i - 1) : cs[j] \in WhiteSpace
           last == CHOOSE i \in 1..Len(cs) :
                     cs[i] \notin WhiteSpace /\ \A j \in (i + 1)..Len(cs) : cs[j] \in WhiteSpace
       IN SubSeq(cs, first, last)

\* Is the character at position i of cs a word character (FALSE outside cs)?
WordAt(cs, i) == i >= 1 /\ i <= Len(cs) /\ IsWordChar(cs[i])

\* \b between positions i - 1 and i
Boundary(cs, i) == WordAt(cs, i - 1) # WordAt(cs, i)

\* Does the literal lit match cs from position i on (fold: the i flag)?
LiteralAt(cs, i, lit, fold) ==
  /\ i + Len(lit) - 1 <= Len(cs)
  /\ \A j \in 1..Len(lit) :
       IF fold THEN ToLowerChar(cs[i + j - 1]) = ToLowerChar(lit[j]) ELSE cs[i + j - 1] = lit[j]

\* /\b(a|b|...)\b/.test(cs), with the i flag when fold
TestWord(alts, cs, fold) ==
  \E lit \in alts : \E i \in 1..Len(cs) :
    /\ Boundary(cs, i)
    /\ Boundary(cs, i + Len(lit))
    /\ LiteralAt(cs, i, lit, fold)

\* /^(a|b|...)$/.test(cs)
TestWhole(alts, cs) == \E lit \in alts : cs = lit

\* /[...]$/.test(cs)
TestLast(class, cs) == Len(cs) > 0 /\ cs[Len(cs)] \in class

AnalyzeWords == {<<"a", "n", "a", "l", "y", "s", "e">>, <<"a", "n", "a", "l", "y", "z", "e">>, <<"p", "a", "t", "t", "e", "r", "n">>, <<"h", "a", "b", "i", "t">>, <<"t", "r", "e", "n", "d">>, <<"h", "i", "s", "t", "o", "r", "y">>}
OutcomeWords == {<<"f", "i", "n", "i", "s", "h", "e", "d">>, <<"c", "o", "m", "p", "l", "e", "t", "e", "d">>, <<"d", "o", "n", "e">>, <<"d", "i", "d", " ", "i", "t">>, <<"f", "a", "i", "l", "e", "d">>, <<"s", "t", "u", "c", "k">>, <<"f", "e", "l", "l", " ", "b", "e", "h", "i", "n", "d">>}
PlanningWords == {<<"p", "l", "a", "n">>, <<"s", "c", "h", "e", "d", "u", "l", "e">>, <<"a", "g", "e", "n", "d", "a">>, <<"b", "l", "o", "c", "k">>, <<"t", "i", "m", "e", "t", "a", "b", "l", "e">>, <<"r", "o", "u", "t", "i", "n", "e">>}
RevisionWords == {<<"c", "h", "a", "n", "g", "e">>, <<"a", "d", "j", "u", "s", "t">>, <<"r", "e", "v", "i", "s", "e">>, <<"m", "o", "d", "i", "f", "y">>, <<"t", "w", "e", "a", "k">>, <<"s", "h", "o", "r", "t", "e", "r">>, <<"l", "o", "n", "g", "e", "r">>}
Affirmations == {<<"o", "k">>, <<"o", "k", "a", "y">>, <<"s", "u", "r", "e">>, <<"f", "i", "n", "e">>, <<"y", "e", "s">>, <<"g", "o", " ", "a", "h", "e", "a", "d">>, <<"d", "o", " ", "i", "t">>}
StudyWords == {<<"s", "t", "u", "d", "y">>, <<"l", "e", "a", "r", "n">>, <<"r", "e", "v", "i", "e", "w">>, <<"p", "r", "e", "p">>, <<"p", "r", "e", "p", "a", "r", "e">>}
QuestionPlanWords == {<<"p", "l", "a", "n">>, <<"s", "c", "h", "e", "d", "u", "l", "e">>, <<"s", "e", "s", "s", "i", "o", "n">>, <<"b", "l", "o", "c", "k">>}
Pronouns == {<<"w", "e">>, <<"I">>, <<"m", "e">>, <<"m", "y">>}
\* [?？！] : the question mark, the full-width question mark, the full-width exclamation mark
QuestionMarks == {"?", "U+FF1F", "U+FF01"}

\* Mutant: the test for an empty message is inverted.
isDirectQuestionAcceptsEmpty(message) ==
  IF ~Truthy(message) THEN TRUE
  ELSE LET trimmed == trim(message.v)
       IN IF TestWord(QuestionPlanWords, trimmed, TRUE) THEN FALSE
          ELSE TestLast(QuestionMarks, trimmed) /\ ~TestWord(Pronouns, trimmed, TRUE)

\* Mutant: the pronoun test is left out.
isDirectQuestionIgnoresPronouns(message) ==
  IF ~Truthy(message) THEN FALSE
  ELSE LET trimmed == trim(message.v)
       IN IF TestWord(QuestionPlanWords, trimmed, TRUE) THEN FALSE
          ELSE TestLast(QuestionMarks, trimmed)

isDirectQuestion(message) ==
  IF ~Truthy(message) THEN FALSE
  ELSE LET trimmed == trim(message.v)
       IN IF TestWord(QuestionPlanWords, trimmed, TRUE) THEN FALSE
          ELSE TestLast(QuestionMarks, trimmed) /\ ~TestWord(Pronouns, trimmed, TRUE)

\* -------------------------------------------------------------------------
\* Routing
\* -------------------------------------------------------------------------

\* Mutant: the planning rule is tried before the outcome rule.
chooseActionPlanningFirst(state, message) ==
  LET text == toLowerCase(Or(message, Str(<<>>)).v)
      lastSession == Get(state, "lastSession")
  IN IF TestWord(AnalyzeWords, text, FALSE) THEN "analyze_pattern"
     ELSE IF TestWord(PlanningWords, text, FALSE)
          THEN (IF Truthy(lastSession) THEN "revise_plan" ELSE "create_plan")
     ELSE IF TestWord(OutcomeWords, text, FALSE) /\ Truthy(lastSession) THEN "log_outcome"
     ELSE IF TestWord(RevisionWords, text, FALSE) /\ Truthy(lastSession) THEN "revise_plan"
     ELSE IF TestWhole(Affirmations, text) THEN "general_chat"
     ELSE IF TestWord(StudyWords, text, FALSE) THEN "create_plan"
     ELSE IF isDirectQuestion(message) THEN "direct_answer"
     ELSE "general_chat"

\* Mutant: the outcome rule is tried before the analysis rule.
chooseActionOutcomeFirst(state, message) ==
  LET text == toLowerCase(Or(message, Str(<<>>)).v)
      lastSession == Get(state, "lastSession")
  IN IF TestWord(OutcomeWords, text, FALSE) /\ Truthy(lastSession) THEN "log_outcome"
     ELSE IF TestWord(AnalyzeWords, text, FALSE) THEN "analyze_pattern"
     ELSE IF TestWord(PlanningWords, text, FALSE)
          THEN (IF Truthy(lastSession) THEN "revise_plan" ELSE "create_plan")
     ELSE IF TestWord(RevisionWords, text, FALSE) /\ Truthy(lastSession) THEN "revise_plan"
     ELSE IF TestWhole(Affirmations, text) THEN "general_chat"
     ELSE IF TestWord(StudyWords, text, FALSE) THEN "create_plan"
     ELSE IF isDirectQuestion(message) THEN "direct_answer"
     ELSE "general_chat"

\* Mutant: the outcome rule does not ask for a session.
chooseActionUnguardedOutcome(state, message) ==
  LET text == toLowerCase(Or(message, Str(<<>>)).v)
      lastSession == Get(state, "lastSession")
  IN IF TestWord(AnalyzeWords, text, FALSE) THEN "analyze_pattern"
     ELSE IF TestWord(OutcomeWords, text, FALSE) THEN "log_outcome"
     ELSE IF TestWord(PlanningWords, text, FALSE)
          THEN (IF Truthy(lastSession) THEN "revise_plan" ELSE "create_plan")
     ELSE IF TestWord(RevisionWords, text, FALSE) /\ Truthy(lastSession) THEN "revise_plan"
     ELSE IF TestWhole(Affirmations, text) THEN "general_chat"
     ELSE IF TestWord(StudyWords, text, FALSE) THEN "create_plan"
     ELSE IF isDirectQuestion(message) THEN "direct_answer"
     ELSE "general_chat"

\* Mutant: an affirmation continues the active plan.
chooseActionAffirmationRevises(state, message) ==
  LET text == toLowerCase(Or(message, Str(<<>>)).v)
      lastSession == Get(state, "lastSession")
  IN IF TestWord(AnalyzeWords, text, FALSE) THEN "analyze_pattern"
     ELSE IF TestWord(OutcomeWords, text, FALSE) /\ Truthy(lastSession) THEN "log_outcome"
     ELSE IF TestWord(PlanningWords, text, FALSE)
          THEN (IF Truthy(lastSession) THEN "revise_plan" ELSE "create_plan")
     ELSE IF TestWord(RevisionWords, text, FALSE) /\ Truthy(lastSession) THEN "revise_plan"
     ELSE IF TestWhole(Affirmations, text)
          THEN (IF Truthy(lastSession) THEN "revise_plan" ELSE "general_chat")
     ELSE IF TestWord(StudyWords, text, FALSE) THEN "create_plan"
     ELSE IF isDirectQuestion(message) THEN "direct_answer"
     ELSE "general_chat"

\* Mutant: the planning rule looks at the session log, not at lastSession.
chooseActionBySessionLog(state, message) ==
  LET text == toLowerCase(Or(message, Str(<<>>)).v)
      lastSession == Get(state, "lastSession")
  IN IF TestWord(AnalyzeWords, text, FALSE) THEN "analyze_pattern"
     ELSE IF TestWord(OutcomeWords, text, FALSE) /\ Truthy(lastSession) THEN "log_outcome"
     ELSE IF TestWord(PlanningWords, text, FALSE)
          THEN (IF Len(Get(state, "sessions").v) > 0 THEN "revise_plan" ELSE "create_plan")
     ELSE IF TestWord(RevisionWords, text, FALSE) /\ Truthy(lastSession) THEN "revise_plan"
     ELSE IF TestWhole(Affirmations, text) THEN "general_chat"
     ELSE IF TestWord(StudyWords, text, FALSE) THEN "create_plan"
     ELSE IF isDirectQuestion(message) THEN "direct_answer"
     ELSE "general_chat"

\* Mutant: the planning rule revises whether or not there is a session.
chooseActionRevisesWithoutSession(state, message) ==
  LET text == toLowerCase(Or(message, Str(<<>>)).v)
      lastSession == Get(state, "lastSession")
  IN IF TestWord(AnalyzeWords, text, FALSE) THEN "analyze_pattern"
     ELSE IF TestWord(OutcomeWords, text, FALSE) /\ Truthy(lastSession) THEN "log_outcome"
     ELSE IF TestWord(PlanningWords, text, FALSE) THEN "revise_plan"
     ELSE IF TestWord(RevisionWords, text, FALSE) /\ Truthy(lastSession) THEN "revise_plan"
     ELSE IF TestWhole(Affirmations, text) THEN "general_chat"
     ELSE IF TestWord(StudyWords, text, FALSE) THEN "create_plan"
     ELSE IF isDirectQuestion(message) THEN "direct_answer"
     ELSE "general_chat"

\* Mutant: the planning rule creates a plan whether or not there is a session.
chooseActionAlwaysCreates(state, message) ==
  LET text == toLowerCase(Or(message, Str(<<>>)).v)
      lastSession == Get(state, "lastSession")
  IN IF TestWord(AnalyzeWords, text, FALSE) THEN "analyze_pattern"
     ELSE IF TestWord(OutcomeWords, text, FALSE) /\ Truthy(lastSession) THEN "log_outcome"
     ELSE IF TestWord(PlanningWords, text, FALSE) THEN "create_plan"
     ELSE IF TestWord(RevisionWords, text, FALSE) /\ Truthy(lastSession) THEN "revise_plan"
     ELSE IF TestWhole(Affirmations, text) THEN "general_chat"
     ELSE IF TestWord(StudyWords, text, FALSE) THEN "create_plan"
     ELSE IF isDirectQuestion(message) THEN "direct_answer"
     ELSE "general_chat"

chooseAction(state, message) ==
  LET text == toLowerCase(Or(message, Str(<<>>)).v)
      lastSession == Get(state, "lastSession")
  IN IF TestWord(AnalyzeWords, text, FALSE) THEN "analyze_pattern"
     ELSE IF TestWord(OutcomeWords, text, FALSE) /\ Truthy(lastSession) THEN "log_outcome"
     ELSE IF TestWord(PlanningWords, text, FALSE)
          THEN (IF Truthy(lastSession) THEN "revise_plan" ELSE "create_plan")
     ELSE IF TestWord(RevisionWords, text, FALSE) /\ Truthy(lastSession) THEN "revise_plan"
     ELSE IF TestWhole(Affirmations, text) THEN "general_chat"
     ELSE IF TestWord(StudyWords, text, FALSE) THEN "create_plan"
     ELSE IF isDirectQuestion(message) THEN "direct_answer"
     ELSE "general_chat"

\* -------------------------------------------------------------------------
\* Handlers.  aiResult is what env.AI.run returned for the handler's prompt;
\* t1 and t2 are the two readings of Date.now().
\* -------------------------------------------------------------------------

\* aiResult?.result || aiResult?.response || fallback
EngineText(aiResult, fallback) ==
  Or(Or(Get(aiResult, "result"), Get(aiResult, "response")), Str(fallback))

handleGeneralChat(state, message, aiResult) ==
  [reply |-> EngineText(aiResult, <<"H", "o", "w", " ", "c", "a", "n", " ", "I", " ", "h", "e", "l", "p", " ", "y", "o", "u", " ", "s", "t", "u", "d", "y", " ", "t", "o", "d", "a", "y", "?">>),
   newState |-> state]

\* Mutant: answering a question drops the active session.
answerDirectQuestionDropsSession(state, message, aiResult) ==
  [reply |-> EngineText(aiResult, <<"I", " ", "d", "o", "n", "'", "t", " ", "k", "n", "o", "w", ".">>),
   newState |-> Spread(state, Obj(<< <<"lastSession", Null>> >>))]

answerDirectQuestion(state, message, aiResult) ==
  [reply |-> EngineText(aiResult, <<"I", " ", "d", "o", "n", "'", "t", " ", "k", "n", "o", "w", ".">>),
   newState |-> state]

\* Mutant: the new state is built from the new session alone, not spread
\* from the loaded state.
createPlanWithoutSpread(state, message, aiResult, t1, t2) ==
  LET planText == EngineText(aiResult, <<"C", "o", "u", "l", "d", " ", "n", "o", "t", " ", "g", "e", "n", "e", "r", "a", "t", "e", " ", "p", "l", "a", "n", ".">>)
      session == Obj(<< <<"id", Str(Decimal(t1))>>,
                        <<"timestamp", Num(t2)>>,
                        <<"goal", message>>,
                        <<"action", Str(<<"c", "r", "e", "a", "t", "e", "_", "p", "l", "a", "n">>)>>,
                        <<"plan", planText>>,
                        <<"outcomeNote", Null>> >>)
      sessions == Arr(Append(Get(state, "sessions").v, session))
  IN [reply |-> planText,
      newState |-> Obj(<< <<"lastSession", session>>, <<"sessions", sessions>> >>)]

\* Mutant: the new plan replaces the session log instead of extending it.
createPlanReplacesLog(state, message, aiResult, t1, t2) ==
  LET planText == EngineText(aiResult, <<"C", "o", "u", "l", "d", " ", "n", "o", "t", " ", "g", "e", "n", "e", "r", "a", "t", "e", " ", "p", "l", "a", "n", ".">>)
      session == Obj(<< <<"id", Str(Decimal(t1))>>,
                        <<"timestamp", Num(t2)>>,
                        <<"goal", message>>,
                        <<"action", Str(<<"c", "r", "e", "a", "t", "e", "_", "p", "l", "a", "n">>)>>,
                        <<"plan", planText>>,
                        <<"outcomeNote", Null>> >>)
  IN [reply |-> planText,
      newState |-> Spread(state, Obj(<< <<"lastSession", session>>,
                                        <<"sessions", Arr(<<session>>)>> >>))]

createPlan(state, message, aiResult, t1, t2) ==
  LET planText == EngineText(aiResult, <<"C", "o", "u", "l", "d", " ", "n", "o", "t", " ", "g", "e", "n", "e", "r", "a", "t", "e", " ", "p", "l", "a", "n", ".">>)
      session == Obj(<< <<"id", Str(Decimal(t1))>>,
                        <<"timestamp", Num(t2)>>,
                        <<"goal", message>>,
                        <<"action", Str(<<"c", "r", "e", "a", "t", "e", "_", "p", "l", "a", "n">>)>>,
                        <<"plan", planText>>,
                        <<"outcomeNote", Null>> >>)
      sessions == Arr(Append(Get(state, "sessions").v, session))
  IN [reply |-> planText,
      newState |-> Spread(state, Obj(<< <<"lastSession", session>>, <<"sessions", sessions>> >>))]

\* Mutant: the revision takes the place of the last logged session.
revisePlanReplacesLast(state, message, aiResult, t1, t2) ==
  LET newPlan == EngineText(aiResult, <<"C", "o", "u", "l", "d", " ", "n", "o", "t", " ", "r", "e", "v", "i", "s", "e", " ", "p", "l", "a", "n", ".">>)
      session == Spread(Get(state, "lastSession"),
                        Obj(<< <<"id", Str(Decimal(t1))>>,
                               <<"timestamp", Num(t2)>>,
                               <<"action", Str(<<"r", "e", "v", "i", "s", "e", "_", "p", "l", "a", "n">>)>>,
                               <<"plan", newPlan>> >>))
      old == Get(state, "sessions").v
      sessions == IF Len(old) > 0 THEN Arr([old EXCEPT ![Len(old)] = session])
                  ELSE Arr(<<session>>)
  IN [reply |-> newPlan,
      newState |-> Spread(state, Obj(<< <<"lastSession", session>>, <<"sessions", sessions>> >>))]

\* Mutant: the revision replaces lastSession without logging it in sessions.
revisePlanNotLogged(state, message, aiResult, t1, t2) ==
  LET newPlan == EngineText(aiResult, <<"C", "o", "u", "l", "d", " ", "n", "o", "t", " ", "r", "e", "v", "i", "s", "e", " ", "p", "l", "a", "n", ".">>)
      session == Spread(Get(state, "lastSession"),
                        Obj(<< <<"id", Str(Decimal(t1))>>,
                               <<"timestamp", Num(t2)>>,
                               <<"action", Str(<<"r", "e", "v", "i", "s", "e", "_", "p", "l", "a", "n">>)>>,
                               <<"plan", newPlan>> >>))
  IN [reply |-> newPlan,
      newState |-> Spread(state, Obj(<< <<"lastSession", session>> >>))]

revisePlan(state, message, aiResult, t1, t2) ==
  LET newPlan == EngineText(aiResult, <<"C", "o", "u", "l", "d", " ", "n", "o", "t", " ", "r", "e", "v", "i", "s", "e", " ", "p", "l", "a", "n", ".">>)
      session == Spread(Get(state, "lastSession"),
                        Obj(<< <<"id", Str(Decimal(t1))>>,
                               <<"timestamp", Num(t2)>>,
                               <<"action", Str(<<"r", "e", "v", "i", "s", "e", "_", "p", "l", "a", "n">>)>>,
                               <<"plan", newPlan>> >>))
      sessions == Arr(Append(Get(state, "sessions").v, session))
  IN [reply |-> newPlan,
      newState |-> Spread(state, Obj(<< <<"lastSession", session>>, <<"sessions", sessions>> >>))]

\* Mutant: logging the outcome closes the active session.
logOutcomeClosesSession(state, message, aiResult) ==
  LET reply == EngineText(aiResult, <<"L", "o", "g", "g", "e", "d", ".">>)
      old == Get(state, "sessions").v
      n == Len(old)
      sessions == IF n > 0
                  THEN Arr([old EXCEPT ![n] = Put(old[n], "outcomeNote", message)])
                  ELSE Arr(old)
  IN [reply |-> reply,
      newState |-> Spread(state, Obj(<< <<"lastSession", Null>>, <<"sessions", sessions>> >>))]

\* Mutant: a session that already has a note keeps it.
logOutcomeKeepsFirstNote(state, message, aiResult) ==
  LET reply == EngineText(aiResult, <<"L", "o", "g", "g", "e", "d", ".">>)
      old == Get(state, "sessions").v
      n == Len(old)
      sessions == IF n > 0 /\ ~Truthy(Get(old[n], "outcomeNote"))
                  THEN Arr([old EXCEPT ![n] = Put(old[n], "outcomeNote", message)])
                  ELSE Arr(old)
      lastSession == Spread(Get(state, "lastSession"), Obj(<< <<"outcomeNote", message>> >>))
  IN [reply |-> reply,
      newState |-> Spread(state, Obj(<< <<"lastSession", lastSession>>, <<"sessions", sessions>> >>))]

logOutcome(state, message, aiResult) ==
  LET reply == EngineText(aiResult, <<"L", "o", "g", "g", "e", "d", ".">>)
      old == Get(state, "sessions").v
      n == Len(old)
      sessions == IF n > 0
                  THEN Arr([old EXCEPT ![n] = Put(old[n], "outcomeNote", message)])
                  ELSE Arr(old)
      lastSession == Spread(Get(state, "lastSession"), Obj(<< <<"outcomeNote", message>> >>))
  IN [reply |-> reply,
      newState |-> Spread(state, Obj(<< <<"lastSession", lastSession>>, <<"sessions", sessions>> >>))]

analyzePattern(state, message, aiResult) ==
  [reply |-> EngineText(aiResult, <<"N", "o", " ", "d", "a", "t", "a", ".">>),
   newState |-> Spread(state, Obj(<< <<"lastAnalysis", Get(aiResult, "result")>> >>))]

\* -------------------------------------------------------------------------
\* State management
\* -------------------------------------------------------------------------

\* What the store holds when the key was never written.
Absent == [t |-> "absent"]

DefaultState ==
  Obj(<< <<"profile", Obj(<< <<"prefersShortSentences", Bool(TRUE)>>,
                             <<"weakAreas", Arr(<<>>)>> >>)>>,
         <<"recentHistory", Arr(<<>>)>>,
         <<"lastSession", Null>>,
         <<"sessions", Arr(<<>>)>>,
         <<"lastAnalysis", Null>> >>)

\* The state loadStudyState returns when STUDY_STATE_KV.get gave `record`.
loadStudyState(record) ==
  LET stored == IF record = Absent THEN Null ELSE record
  IN IF ~Truthy(stored) THEN DefaultState
     ELSE Spread(Spread(DefaultState, stored),
                 Obj(<< <<"recentHistory",
                          IF IsArray(Get(stored, "recentHistory"))
                          THEN Get(stored, "recentHistory") ELSE Arr(<<>>)>>,
                        <<"sessions",
                          IF IsArray(Get(stored, "sessions"))
                          THEN Get(stored, "sessions") ELSE Arr(<<>>)>> >>))

HistoryLimit == 8

\* Mutant: the window is one entry short.
SliceLastButOne(xs, n) == IF Len(xs) > n THEN SubSeq(xs, Len(xs) - n + 2, Len(xs)) ELSE xs

\* Mutant: slice(0, n), the oldest entries are kept.
SliceFirst(xs, n) == IF Len(xs) > n THEN SubSeq(xs, 1, n) ELSE xs

\* Array.prototype.slice(-n)
SliceLast(xs, n) == IF Len(xs) > n THEN SubSeq(xs, Len(xs) - n + 1, Len(xs)) ELSE xs

\* The document saveStudyState hands to STUDY_STATE_KV.put.
saveStudyState(state) ==
  LET history == Get(state, "recentHistory").v
      trimmed == IF Len(history) > HistoryLimit
                 THEN Put(state, "recentHistory", Arr(SliceLast(history, HistoryLimit)))
                 ELSE state
  IN JSONDocument(trimmed)

\* The record /debug/reset writes.
ResetRecord ==
  saveStudyState(Obj(<< <<"recentHistory", Arr(<<>>)>>,
                        <<"sessions", Arr(<<>>)>>,
                        <<"lastSession", Null>> >>))

Turn(role, content) == Obj(<< <<"role", Str(role)>>, <<"content", content>> >>)

\* -------------------------------------------------------------------------
\* The chat endpoint: fetch() for POST /api/chat, one handler per request
\* -------------------------------------------------------------------------

\* Request handlers that may be in flight together.
Procs == {1, 2}

\* Bounds of the model: requests per run, and the latest clock reading.
MaxRequests == 2
MaxSerialRequests == 3
MaxHistoryRequests == 5
MaxClock == 2
MaxFaultRequests == 2

\* What clients of the chat endpoint send.
ChatMessages == {Str(<<"p", "l", "a", "n">>), Str(<<"d", "o", "n", "e">>), Str(<<"a", "n", "a", "l", "y", "z", "e">>), Str(<<"w", "h", "y", "?">>)}
RacingMessages == {Str(<<"p", "l", "a", "n">>), Str(<<"d", "o", "n", "e">>), Str(<<"w", "h", "y", "?">>), Str(<<>>)}
FaultMessages == {Str(<<"p", "l", "a", "n">>), Str(<<"d", "o", "n", "e">>)}
PlanningMessages == {Str(<<"p", "l", "a", "n">>), Str(<<"d", "o", "n", "e">>), Str(<<"I", " ", "f", "i", "n", "i", "s", "h", "e", "d", " ", "t", "h", "e", " ", "p", "l", "a", "n">>)}
LongRunMessages == {Str(<<"p", "l", "a", "n">>), Str(<<"o", "k">>)}

\* What env.AI.run resolves to: no payload, or text in one of the two fields.
EngineResults ==
  {Undefined,
   Obj(<< <<"response", Str(<<"A">>)>> >>),
   Obj(<< <<"result", Str(<<"B">>)>> >>)}
RacingResults == {Undefined, Obj(<< <<"response", Str(<<"A">>)>> >>)}

\* log: the calls the request has made to the store and the engine, in order.
NoRequest ==
  [message |-> Undefined, state |-> Undefined, seen |-> Undefined,
   action |-> "none", reply |-> Undefined, write |-> Undefined, log |-> <<>>]

NoArg == [state |-> Undefined, message |-> Undefined, aiResult |-> Undefined, t1 |-> 0, t2 |-> 0]

\* The handler chosen for an action, applied.
Dispatch(action, state, message, aiResult, t1, t2) ==
  CASE action = "direct_answer" -> answerDirectQuestion(state, message, aiResult)
    [] action = "create_plan" -> createPlan(state, message, aiResult, t1, t2)
    [] action = "revise_plan" -> revisePlan(state, message, aiResult, t1, t2)
    [] action = "log_outcome" -> logOutcome(state, message, aiResult)
    [] action = "analyze_pattern" -> analyzePattern(state, message, aiResult)
    [] OTHER -> handleGeneralChat(state, message, aiResult)

ReadsClock(action) == action \in {"create_plan", "revise_plan"}

\* Mutant: the assistant turn is put before the user turn.
NewTurnsAssistantFirst(message, reply) == <<Turn(<<"a", "s", "s", "i", "s", "t", "a", "n", "t">>, reply), Turn(<<"u", "s", "e", "r">>, message)>>

\* The two turns a request appends to recentHistory.
NewTurns(message, reply) == <<Turn(<<"u", "s", "e", "r">>, message), Turn(<<"a", "s", "s", "i", "s", "t", "a", "n", "t">>, reply)>>

\* Mutant: the loaded recentHistory is not carried over.
FinalStateNewTurnsOnly(state, message, outcome) ==
  Spread(outcome.newState,
         Obj(<< <<"recentHistory", Arr(NewTurns(message, outcome.reply))>> >>))

\* finalState: the handler's newState with the two turns appended to the
\* recentHistory that was loaded.
FinalState(state, message, outcome) ==
  Spread(outcome.newState,
         Obj(<< <<"recentHistory",
                  Arr(Get(state, "recentHistory").v \o NewTurns(message, outcome.reply))>> >>))

\* Mutant: the action is chosen by a call to the engine, as a router prompt,
\* before the handler makes its own.
LoadRoutesByEngine(p, message) ==
  /\ pc[p] = "idle"
  /\ pc' = [pc EXCEPT ![p] = "loaded"]
  /\ LET state == loadStudyState(kv)
     IN req' = [req EXCEPT ![p] = [NoRequest EXCEPT !.message = message,
                                                    !.state = state,
                                                    !.action = chooseAction(state, message),
                                                    !.seen = answered,
                                                    !.log = <<"get", "run", "run">>]]
  /\ started' = started + 1
  /\ UNCHANGED <<kv, now, answered, turns, planned, call, arg, ret>>

\* 1.-3. The store has answered the read: load the state, decide what to do,
\* and enter the handler, which sends its prompt to the engine.
Load(p, message) ==
  /\ pc[p] = "idle"
  /\ pc' = [pc EXCEPT ![p] = "loaded"]
  /\ LET state == loadStudyState(kv)
     IN req' = [req EXCEPT ![p] = [NoRequest EXCEPT !.message = message,
                                                    !.state = state,
                                                    !.action = chooseAction(state, message),
                                                    !.seen = answered,
                                                    !.log = <<"get", "run">>]]
  /\ started' = started + 1
  /\ UNCHANGED <<kv, now, answered, turns, planned, call, arg, ret>>

\* 3.-6. The engine has answered: finish the handler, append the turns, hand
\* the final state to saveStudyState (which trims it and starts the put)
\* inside ctx.waitUntil, and return {reply, action}.
Respond(p, aiResult, t1, t2) ==
  /\ pc[p] = "loaded"
  /\ IF ReadsClock(req[p].action) THEN now <= t1 /\ t1 <= t2 ELSE t1 = now /\ t2 = now
  /\ LET r == req[p]
         outcome == Dispatch(r.action, r.state, r.message, aiResult, t1, t2)
         document == saveStudyState(FinalState(r.state, r.message, outcome))
     IN /\ req' = [req EXCEPT ![p] = [r EXCEPT !.reply = outcome.reply,
                                               !.write = document,
                                               !.log = Append(r.log, "put")]]
        /\ answered' = document
        /\ turns' = turns \o NewTurns(r.message, outcome.reply)
        /\ planned' = IF ReadsClock(r.action) THEN planned + 1 ELSE planned
        /\ now' = t2
  /\ pc' = [pc EXCEPT ![p] = "saving"]
  /\ UNCHANGED <<kv, started, call, arg, ret>>

\* The put started by saveStudyState takes effect, after the response.
Save(p) ==
  /\ pc[p] = "saving"
  /\ kv' = req[p].write
  /\ pc' = [pc EXCEPT ![p] = "idle"]
  /\ req' = [req EXCEPT ![p] = NoRequest]
  /\ UNCHANGED <<now, started, answered, turns, planned, call, arg, ret>>

InitChat ==
  /\ kv \in {Absent, ResetRecord}
  /\ pc = [p \in Procs |-> "idle"]
  /\ req = [p \in Procs |-> NoRequest]
  /\ now = 1
  /\ started = 0
  /\ answered = Undefined
  /\ turns = <<>>
  /\ planned = 0
  /\ call = "none"
  /\ arg = NoArg
  /\ ret = Undefined

Init == InitChat

\* Requests of one user arriving at any time, also while earlier ones are
\* still being handled or saved.  Here the two readings of Date.now() in a
\* handler fall in the same millisecond; SpecHandlers applies the handlers to
\* readings that differ.
Next ==
  \E p \in Procs :
    \/ \E message \in RacingMessages : started < MaxRequests /\ Load(p, message)
    \/ \E aiResult \in RacingResults : \E t \in 1..MaxClock : Respond(p, aiResult, t, t)
    \/ Save(p)

Spec == Init /\ [][Next]_vars

\* Requests of one user processed one at a time: the next one is read only
\* after the write of the one before has taken effect.
NextSerial ==
  \/ \E message \in ChatMessages : started < MaxSerialRequests /\ Load(1, message)
  \/ \E aiResult \in EngineResults : \E t \in 1..MaxClock : Respond(1, aiResult, t, t)
  \/ Save(1)

SpecSerial == Init /\ [][NextSerial]_vars

\* A long conversation, one request at a time, within one clock reading.
NextHistory ==
  \/ \E message \in LongRunMessages : started < MaxHistoryRequests /\ Load(1, message)
  \/ \E aiResult \in RacingResults : Respond(1, aiResult, now, now)
  \/ Save(1)

SpecHistory == Init /\ [][NextHistory]_vars

\* The conversation of test_study_agent.sh: after /debug/reset, four messages,
\* each sent when the one before is answered and saved.
Scenario ==
  <<Str(<<"I", " ", "h", "a", "v", "e", " ", "6", "0", " ", "m", "i", "n", "u", "t", "e", "s", " ", "t", "o", " ", "s", "t", "u", "d", "y", " ", "b", "i", "n", "a", "r", "y", " ", "s", "e", "a", "r", "c", "h", ".">>),
    Str(<<"M", "a", "k", "e", " ", "t", "h", "e", " ", "p", "l", "a", "n", " ", "f", "a", "s", "t", "e", "r", " ", "a", "n", "d", " ", "m", "o", "r", "e", " ", "p", "r", "a", "c", "t", "i", "c", "a", "l", ".">>),
    Str(<<"I", " ", "g", "o", "t", " ", "m", "o", "s", "t", " ", "o", "f", " ", "i", "t", " ", "d", "o", "n", "e", " ", "b", "u", "t", " ", "s", "l", "o", "w", "e", "d", " ", "d", "o", "w", "n", " ", "a", "t", " ", "t", "h", "e", " ", "e", "n", "d", ".">>),
    Str(<<"A", "n", "a", "l", "y", "z", "e", " ", "m", "y", " ", "s", "t", "u", "d", "y", " ", "h", "a", "b", "i", "t", "s", " ", "s", "o", " ", "f", "a", "r", ".">>)>>

InitScenario == InitChat /\ kv = ResetRecord

NextScenario ==
  \/ started < Len(Scenario) /\ Load(1, Scenario[started + 1])
  \/ \E aiResult \in EngineResults : \E t \in 1..MaxClock : Respond(1, aiResult, t, t)
  \/ Save(1)

SpecScenario == InitScenario /\ [][NextScenario]_vars

\* STUDY_STATE_KV.get rejects: the exception leaves loadStudyState and fetch,
\* the request fails before anything else is done.
LoadFails(p, message) ==
  /\ pc[p] = "idle"
  /\ pc' = [pc EXCEPT ![p] = "failed"]
  /\ req' = [req EXCEPT ![p] = [NoRequest EXCEPT !.message = message, !.log = <<"get">>]]
  /\ started' = started + 1
  /\ UNCHANGED <<kv, now, answered, turns, planned, call, arg, ret>>

\* env.AI.run rejects (an engine error, a timeout): no handler catches it,
\* the exception leaves the handler and fetch, the request fails.
EngineFails(p) ==
  /\ pc[p] = "loaded"
  /\ pc' = [pc EXCEPT ![p] = "failed"]
  /\ UNCHANGED <<kv, req, now, started, answered, turns, planned, call, arg, ret>>

\* STUDY_STATE_KV.put rejects inside ctx.waitUntil, after the response with
\* {reply, action} was returned: the record stays as it was.
PutFails(p) ==
  /\ pc[p] = "saving"
  /\ pc' = [pc EXCEPT ![p] = "unsaved"]
  /\ UNCHANGED <<kv, req, now, started, answered, turns, planned, call, arg, ret>>

\* The invocation of a request that failed, or whose write failed, ends.
Close(p) ==
  /\ pc[p] \in {"failed", "unsaved"}
  /\ pc' = [pc EXCEPT ![p] = "idle"]
  /\ req' = [req EXCEPT ![p] = NoRequest]
  /\ UNCHANGED <<kv, now, started, answered, turns, planned, call, arg, ret>>

\* Requests one at a time, with a store and an engine that may fail.
NextFaults ==
  \/ \E message \in FaultMessages : started < MaxFaultRequests /\ Load(1, message)
  \/ \E message \in FaultMessages : started < MaxFaultRequests /\ LoadFails(1, message)
  \/ \E aiResult \in RacingResults : Respond(1, aiResult, now, now)
  \/ EngineFails(1)
  \/ Save(1)
  \/ PutFails(1)
  \/ Close(1)

SpecFaults == Init /\ [][NextFaults]_vars

\* After /debug/reset, requests one at a time that plan, report, or do both
\* in one message.
InitPlanning == InitChat /\ kv = ResetRecord

NextPlanning ==
  \/ \E message \in PlanningMessages : started < MaxSerialRequests /\ Load(1, message)
  \/ \E aiResult \in RacingResults : Respond(1, aiResult, now, now)
  \/ Save(1)

SpecPlanning == InitPlanning /\ [][NextPlanning]_vars

\* -------------------------------------------------------------------------
\* The router and the handlers applied directly, one call per behaviour
\* -------------------------------------------------------------------------

\* Messages the router is applied to.
Corpus ==
  {Str(<<>>),
   Str(<<"o", "k">>), Str(<<"O", "K">>), Str(<<" ", "o", "k", " ">>), Str(<<"o", "k", "\n">>), Str(<<"o", "k", "a", "y">>), Str(<<"S", "u", "r", "e">>),
   Str(<<"f", "i", "n", "e">>), Str(<<"y", "e", "s">>), Str(<<"Y", "E", "S">>), Str(<<"g", "o", " ", "a", "h", "e", "a", "d">>), Str(<<"d", "o", " ", "i", "t">>),
   Str(<<"y", "e", "s", "t", "e", "r", "d", "a", "y">>), Str(<<"O", "K", " ", "t", "h", "e", "n">>), Str(<<"I", "s", " ", "t", "h", "i", "s", " ", "f", "i", "n", "e", "?">>),
   Str(<<"A", "n", "a", "l", "y", "z", "e", " ", "m", "y", " ", "s", "t", "u", "d", "y", " ", "h", "a", "b", "i", "t", "s", " ", "s", "o", " ", "f", "a", "r", ".">>), Str(<<"W", "h", "a", "t", " ", "a", "r", "e", " ", "m", "y", " ", "h", "a", "b", "i", "t", "s", "?">>),
   Str(<<"r", "e", "v", "i", "e", "w", " ", "t", "r", "e", "n", "d", "s">>), Str(<<"h", "i", "s", "t", "o", "r", "y", " ", "o", "f", " ", "m", "y", " ", "f", "i", "n", "i", "s", "h", "e", "d", " ", "p", "l", "a", "n">>),
   Str(<<"A", "n", "a", "l", "y", "s", "e", " ", "t", "h", "e", " ", "p", "l", "a", "n", " ", "I", " ", "c", "o", "m", "p", "l", "e", "t", "e", "d">>),
   Str(<<"I", "'", "m", " ", "d", "o", "n", "e", ".">>), Str(<<"I", " ", "d", "i", "d", " ", "i", "t">>), Str(<<"I", " ", "d", "i", "d", " ", " ", "i", "t">>), Str(<<"w", "e", " ", "f", "a", "i", "l", "e", "d">>),
   Str(<<"I", " ", "f", "i", "n", "i", "s", "h", "e", "d", " ", "t", "h", "e", " ", "c", "h", "a", "p", "t", "e", "r">>), Str(<<"I", " ", "f", "i", "n", "i", "s", "h", "e", "d", " ", "t", "h", "e", " ", "p", "l", "a", "n">>), Str(<<"r", "e", "v", "i", "s", "e", " ", "i", "t", ",", " ", "I", " ", "a", "m", " ", "s", "t", "u", "c", "k">>), Str(<<"I", "s", " ", "i", "t", " ", "d", "o", "n", "e", "?">>), Str(<<"p", "l", "a", "n", "_", "b", " ", "i", "s", " ", "d", "o", "n", "e", "?">>),
   Str(<<"I", " ", "g", "o", "t", " ", "m", "o", "s", "t", " ", "o", "f", " ", "i", "t", " ", "d", "o", "n", "e", " ", "b", "u", "t", " ", "s", "l", "o", "w", "e", "d", " ", "d", "o", "w", "n", " ", "a", "t", " ", "t", "h", "e", " ", "e", "n", "d", ".">>),
   Str(<<"M", "a", "k", "e", " ", "t", "h", "e", " ", "p", "l", "a", "n", " ", "f", "a", "s", "t", "e", "r", " ", "a", "n", "d", " ", "m", "o", "r", "e", " ", "p", "r", "a", "c", "t", "i", "c", "a", "l", ".">>), Str(<<"c", "h", "a", "n", "g", "e", " ", "t", "h", "e", " ", "s", "c", "h", "e", "d", "u", "l", "e">>),
   Str(<<"W", "h", "a", "t", " ", "i", "s", " ", "a", " ", "b", "l", "o", "c", "k", "?">>), Str(<<"C", "a", "n", " ", "I", " ", "g", "e", "t", " ", "a", " ", "p", "l", "a", "n", "?">>), Str(<<"p", "l", "a", "n", "s">>),
   Str(<<"M", "a", "k", "e", " ", "i", "t", " ", "s", "h", "o", "r", "t", "e", "r">>), Str(<<"t", "w", "e", "a", "k", " ", "i", "t">>), Str(<<"a", "d", "j", "u", "s", "t", " ", "m", "y", " ", "s", "t", "u", "d", "y", " ", "t", "i", "m", "e">>),
   Str(<<"I", " ", "h", "a", "v", "e", " ", "6", "0", " ", "m", "i", "n", "u", "t", "e", "s", " ", "t", "o", " ", "s", "t", "u", "d", "y", " ", "b", "i", "n", "a", "r", "y", " ", "s", "e", "a", "r", "c", "h", ".">>), Str(<<"p", "r", "e", "p">>),
   Str(<<"W", "h", "a", "t", " ", "i", "s", " ", "a", " ", "p", "o", "i", "n", "t", "e", "r", "?">>), Str(<<"W", "h", "a", "t", " ", "i", "s", " ", "a", " ", "p", "o", "i", "n", "t", "e", "r", "U+FF1F">>), Str(<<"R", "e", "a", "l", "l", "y", "U+FF01">>),
   Str(<<"H", "o", "w", " ", "d", "o", "e", "s", " ", "r", "e", "c", "u", "r", "s", "i", "o", "n", " ", "w", "o", "r", "k", "?", " ">>), Str(<<"W", "h", "a", "t", " ", "i", "s", " ", "a", " ", "s", "e", "s", "s", "i", "o", "n", "?">>), Str(<<"W", "h", "y", " ", "m", "e", "?">>),
   Str(<<"W", "h", "a", "t", " ", "i", "s", " ", "a", " ", "p", "o", "i", "n", "t", "e", "r">>), Str(<<"W", "h", "y", "?">>), Str(<<"h", "e", "l", "l", "o">>), Str(<<" ", " ", " ">>)}

EngineA == Obj(<< <<"response", Str(<<"A">>)>> >>)
EngineB == Obj(<< <<"result", Str(<<"B">>)>> >>)

\* User states to apply the router and the handlers to: the state of a first
\* load, the states the handlers make of it, and the state loaded from a
\* record of the earlier schema {profile, lastSession} (no sessions).
FreshState == loadStudyState(Absent)
PlannedState == createPlan(FreshState, Str(<<"s", "t", "u", "d", "y">>), EngineA, 1, 1).newState
RevisedState == revisePlan(PlannedState, Str(<<"p", "l", "a", "n">>), EngineB, 1, 2).newState
ReportedState == logOutcome(RevisedState, Str(<<"d", "o", "n", "e">>), Undefined).newState
LegacyState ==
  loadStudyState(
    Obj(<< <<"profile", Get(DefaultState, "profile")>>,
           <<"lastSession", Obj(<< <<"timestamp", Num(1)>>,
                                   <<"goal", Str(<<"s", "t", "u", "d", "y">>)>>,
                                   <<"plan", Str(<<"A">>)>> >>)>> >>))

UserStates == {FreshState, PlannedState, RevisedState, ReportedState, LegacyState}

HandlerMessages == {Str(<<"p", "l", "a", "n">>), Str(<<"I", "'", "m", " ", "d", "o", "n", "e", ".">>), Str(<<>>)}

\* Every shape of payload env.AI.run can resolve to.
EnginePayloads ==
  {Undefined, Null, Obj(<<>>), EngineA, EngineB,
   Obj(<< <<"result", Str(<<>>)>>, <<"response", Str(<<"A">>)>> >>),
   Obj(<< <<"response", Str(<<>>)>> >>)}

InitCall(states, messages, payloads) ==
  /\ kv = Absent
  /\ pc = [p \in Procs |-> "idle"]
  /\ req = [p \in Procs |-> NoRequest]
  /\ now = 1
  /\ started = 0
  /\ answered = Undefined
  /\ turns = <<>>
  /\ planned = 0
  /\ call = "none"
  /\ arg \in [state : states, message : messages, aiResult : payloads,
              t1 : 1..MaxClock, t2 : 1..MaxClock]
  /\ arg.t1 <= arg.t2
  /\ ret = Undefined

Return(name, value) ==
  /\ call = "none"
  /\ call' = name
  /\ ret' = value
  /\ UNCHANGED <<kv, pc, req, now, started, answered, turns, planned, arg>>

CallChooseAction == Return("chooseAction", chooseAction(arg.state, arg.message))
CallIsDirectQuestion == Return("isDirectQuestion", isDirectQuestion(arg.message))

\* The test of rule 5 on its own: /^(ok|...|do it)$/.test(text).
CallAffirmation ==
  Return("affirmation", TestWhole(Affirmations, toLowerCase(Or(arg.message, Str(<<>>)).v)))

InitRouter == InitCall(UserStates, Corpus, {Undefined}) /\ arg.t2 = 1
NextRouter == CallChooseAction \/ CallIsDirectQuestion \/ CallAffirmation
SpecRouter == InitRouter /\ [][NextRouter]_vars

CallCreatePlan ==
  Return("createPlan", createPlan(arg.state, arg.message, arg.aiResult, arg.t1, arg.t2))
CallRevisePlan ==
  Return("revisePlan", revisePlan(arg.state, arg.message, arg.aiResult, arg.t1, arg.t2))
CallLogOutcome ==
  Return("logOutcome", logOutcome(arg.state, arg.message, arg.aiResult))
CallAnalyzePattern ==
  Return("analyzePattern", analyzePattern(arg.state, arg.message, arg.aiResult))
CallAnswerDirectQuestion ==
  Return("answerDirectQuestion", answerDirectQuestion(arg.state, arg.message, arg.aiResult))
CallHandleGeneralChat ==
  Return("handleGeneralChat", handleGeneralChat(arg.state, arg.message, arg.aiResult))

InitHandlers == InitCall(UserStates, HandlerMessages, EnginePayloads)
NextHandlers ==
  \/ CallCreatePlan
  \/ CallRevisePlan
  \/ CallLogOutcome
  \/ CallAnalyzePattern
  \/ CallAnswerDirectQuestion
  \/ CallHandleGeneralChat
SpecHandlers == InitHandlers /\ [][NextHandlers]_vars

\* Records the store may hold for a user: none, or one where each field of
\* the schema is missing, well formed, or present with a value of another
\* shape.
ProfileValues == {Undefined, Get(DefaultState, "profile"), Null}
RecentHistoryValues == {Undefined, Arr(<<Turn(<<"u", "s", "e", "r">>, Str(<<"h", "e", "l", "l", "o">>))>>), Str(<<"n", "o", "n", "e">>)}
LastSessionValues == {Undefined, Get(PlannedState, "lastSession"), Str(<<"n", "o", "n", "e">>)}
SessionsValues == {Undefined, Get(PlannedState, "sessions"), Null}
LastAnalysisValues == {Undefined, Str(<<"A">>), Num(1)}

StoredRecords ==
  {Absent} \cup
  {JSONDocument(Obj(<< <<"profile", p>>, <<"recentHistory", h>>, <<"lastSession", l>>,
                       <<"sessions", s>>, <<"lastAnalysis", a>> >>)) :
     p \in ProfileValues, h \in RecentHistoryValues, l \in LastSessionValues,
     s \in SessionsValues, a \in LastAnalysisValues}

\* loadStudyState applied to what STUDY_STATE_KV.get gave (arg.state).
CallLoadStudyState == Return("loadStudyState", loadStudyState(arg.state))

InitLoad == InitCall(StoredRecords, {Str(<<>>)}, {Undefined}) /\ arg.t2 = 1
NextLoad == CallLoadStudyState
SpecLoad == InitLoad /\ [][NextLoad]_vars


\* -------------------------------------------------------------------------
\* Properties
\* -------------------------------------------------------------------------

Actions ==
  {"analyze_pattern", "log_outcome", "create_plan", "revise_plan", "direct_answer", "general_chat"}

\* A keyword occurs in a text as a whole word (or whole words): it starts where
\* a run of word characters starts and ends where one ends.
RunStart(cs, i) == IsWordChar(cs[i]) /\ (i = 1 \/ ~IsWordChar(cs[i - 1]))
RunEnd(cs, j) == IsWordChar(cs[j]) /\ (j = Len(cs) \/ ~IsWordChar(cs[j + 1]))
Occurs(k, cs) ==
  \E i \in 1..Len(cs) :
    LET j == i + Len(k) - 1
    IN j <= Len(cs) /\ RunStart(cs, i) /\ RunEnd(cs, j) /\ SubSeq(cs, i, j) = k
Mentions(keywords, cs) == \E k \in keywords : Occurs(toLowerCase(k), toLowerCase(cs))

HasSession(state) == Get(state, "lastSession") \notin {Null, Undefined}

\* The question test of rule 7, as the specification words it.
AsksDirectly(cs) ==
  /\ trim(cs) # <<>>
  /\ trim(cs)[Len(trim(cs))] \in QuestionMarks
  /\ ~Mentions(QuestionPlanWords, cs)
  /\ ~Mentions(Pronouns, cs)

\* The eight rules, top to bottom: <<does the rule match, what it returns>>.
Ladder(state, cs) ==
  << <<Mentions(AnalyzeWords, cs), "analyze_pattern">>,
     <<Mentions(OutcomeWords, cs) /\ HasSession(state), "log_outcome">>,
     <<Mentions(PlanningWords, cs), IF HasSession(state) THEN "revise_plan" ELSE "create_plan">>,
     <<Mentions(RevisionWords, cs) /\ HasSession(state), "revise_plan">>,
     <<toLowerCase(trim(cs)) \in Affirmations, "general_chat">>,
     <<Mentions(StudyWords, cs), "create_plan">>,
     <<AsksDirectly(cs), "direct_answer">>,
     <<TRUE, "general_chat">> >>

FirstMatch(rules) == rules[CHOOSE i \in 1..Len(rules) : rules[i][1] /\ \A j \in 1..(i - 1) : ~rules[j][1]][2]

\* C1: for every state and message chooseAction returns one of the six
\* actions, the one of the first rule of the eight-rule ladder that matches.
C1_FirstMatchingRule ==
  call = "chooseAction" =>
    /\ ret \in Actions
    /\ ret = FirstMatch(Ladder(arg.state, arg.message.v))

\* A message that matches rules 2 and 3 at once is decided by rule 2.
C1_Witness ==
  /\ call = "chooseAction"
  /\ ret = "log_outcome"
  /\ Mentions(PlanningWords, arg.message.v)
  /\ Mentions(OutcomeWords, arg.message.v)

HistoryOf(record) == Get(record, "recentHistory").v
SessionsOf(record) == Get(record, "sessions").v

\* h is the last 8 entries of all (all of them when there are fewer), in order.
IsWindow(h, all) ==
  /\ Len(h) = (IF Len(all) > 8 THEN 8 ELSE Len(all))
  /\ \A i \in 1..Len(h) : h[i] = all[Len(all) - Len(h) + i]

LastSessionLogged(record, action, message) ==
  LET last == Get(record, "lastSession")
      log == SessionsOf(record)
  IN last # Null =>
       /\ Len(log) > 0
       /\ Get(last, "id") # Undefined
       /\ Get(last, "id") = Get(log[Len(log)], "id")
       /\ action = "log_outcome" =>
            /\ Get(last, "outcomeNote") = message
            /\ Get(log[Len(log)], "outcomeNote") = message

\* C3: in every record the chat endpoint persists, a non-null lastSession has
\* the id of the last element of sessions, and after log_outcome both carry
\* the same outcomeNote, for any sequence of requests from the empty or the
\* reset record.
C3_LastSessionIsLastLogged ==
  /\ \A p \in Procs :
       pc[p] = "saving" => LastSessionLogged(req[p].write, req[p].action, req[p].message)
  /\ kv # Absent => LastSessionLogged(kv, "none", Undefined)

\* A log_outcome request is about to be persisted.
C3_Witness ==
  \E p \in Procs :
    /\ pc[p] = "saving"
    /\ req[p].action = "log_outcome"
    /\ Len(SessionsOf(req[p].write)) = 2

\* C4: a request that begins after an earlier request was answered loads the
\* state that request produced, never the record from before it.
C4_NoStaleLoad ==
  \A p \in Procs :
    (pc[p] \in {"loaded", "saving"} /\ req[p].seen # Undefined) =>
      req[p].state = loadStudyState(req[p].seen)

AllIdle == \A p \in Procs : pc[p] = "idle"

\* C5: when requests overlap, the stored record still holds the turns and the
\* sessions of all of them.
C5_NoLostUpdate ==
  (AllIdle /\ started > 0) =>
    /\ IsWindow(HistoryOf(kv), turns)
    /\ Len(SessionsOf(kv)) = planned

\* What a request writes is the record it loaded plus its own two turns and,
\* for create_plan and revise_plan, its own session.
WritesOwnLoad(r) ==
  LET loaded == SessionsOf(r.state)
      written == SessionsOf(r.write)
  IN /\ IsWindow(HistoryOf(r.write),
                 HistoryOf(r.state) \o <<Turn(<<"u", "s", "e", "r">>, r.message), Turn(<<"a", "s", "s", "i", "s", "t", "a", "n", "t">>, r.reply)>>)
     /\ Len(written) = Len(loaded) + (IF r.action \in {"create_plan", "revise_plan"} THEN 1 ELSE 0)
     /\ \A i \in 1..Len(loaded) : Get(written[i], "id") = Get(loaded[i], "id")

\* C5, amended: each request writes the record it loaded plus its own
\* contribution, and the store keeps whichever record is written last.
C5_LastWriterWins ==
  /\ [](\A p \in Procs : pc[p] = "saving" => WritesOwnLoad(req[p]))
  /\ [][\A p \in Procs : (pc[p] = "saving" /\ pc'[p] = "idle") => kv' = req[p].write]_vars

\* Two requests were answered and saved, and the store holds the turns of one.
C5_Witness ==
  /\ AllIdle
  /\ started = 2
  /\ Len(turns) = 4
  /\ Len(HistoryOf(kv)) = 2

ScenarioActions == <<"create_plan", "revise_plan", "log_outcome", "analyze_pattern">>

\* C6: the four messages of the end-to-end scenario are classified
\* create_plan, revise_plan, log_outcome, analyze_pattern, and leave 2
\* sessions, the second with an outcomeNote, and a lastAnalysis.
C6_Scenario ==
  /\ pc[1] # "idle" => req[1].action = ScenarioActions[started]
  /\ (pc[1] = "idle" /\ started = Len(Scenario)) =>
       /\ Len(SessionsOf(kv)) = 2
       /\ Get(SessionsOf(kv)[2], "outcomeNote") \notin {Null, Undefined}
       /\ Get(kv, "lastAnalysis") \notin {Null, Undefined}

\* xs followed by exactly one more element.
ExtendsByOne(xs, ys) == Len(ys) = Len(xs) + 1 /\ SubSeq(ys, 1, Len(xs)) = xs

\* C7: create_plan applied to any state appends exactly one Session to
\* sessions, the earlier entries unchanged, and sets lastSession to it, with
\* action create_plan, goal the message, plan the reply, outcomeNote null.
C7_CreatePlanAppends ==
  call = "createPlan" =>
    LET before == SessionsOf(arg.state)
        after == SessionsOf(ret.newState)
        session == Get(ret.newState, "lastSession")
    IN /\ ExtendsByOne(before, after)
       /\ after[Len(after)] = session
       /\ Get(session, "action") = Str(<<"c", "r", "e", "a", "t", "e", "_", "p", "l", "a", "n">>)
       /\ Get(session, "goal") = arg.message
       /\ Get(session, "plan") = ret.reply
       /\ Get(session, "outcomeNote") = Null

\* createPlan applied to a state that already holds two sessions.
C7_Witness ==
  /\ call = "createPlan"
  /\ Len(SessionsOf(arg.state)) = 2
  /\ Len(SessionsOf(ret.newState)) = 3

\* C8: revise_plan applied to any state appends exactly one Session with
\* action revise_plan and sets it as lastSession; its goal is the goal of the
\* prior lastSession, or the raw message when there was no lastSession.
C8_RevisePlanKeepsGoal ==
  call = "revisePlan" =>
    LET before == SessionsOf(arg.state)
        after == SessionsOf(ret.newState)
        prior == Get(arg.state, "lastSession")
        session == Get(ret.newState, "lastSession")
    IN /\ ExtendsByOne(before, after)
       /\ after[Len(after)] = session
       /\ Get(session, "action") = Str(<<"r", "e", "v", "i", "s", "e", "_", "p", "l", "a", "n">>)
       /\ Get(session, "goal") = (IF prior # Null THEN Get(prior, "goal") ELSE arg.message)

\* C9: log_outcome applied to a state with at least one Session sets
\* outcomeNote to the message on the last element of sessions and on
\* lastSession, changes nothing else in sessions, and overwrites the note of an
\* earlier report.
C9_LogOutcomeSetsNote ==
  (call = "logOutcome" /\ Len(SessionsOf(arg.state)) > 0) =>
    LET before == SessionsOf(arg.state)
        after == SessionsOf(ret.newState)
        n == Len(before)
    IN /\ Len(after) = n
       /\ \A i \in 1..(n - 1) : after[i] = before[i]
       /\ after[n] = Put(before[n], "outcomeNote", arg.message)
       /\ Get(after[n], "outcomeNote") = arg.message
       /\ Get(Get(ret.newState, "lastSession"), "outcomeNote") = arg.message

\* A second report replaces the note of the first.
C9_Witness ==
  /\ call = "logOutcome"
  /\ Len(SessionsOf(arg.state)) = 2
  /\ Get(SessionsOf(arg.state)[2], "outcomeNote") = Str(<<"d", "o", "n", "e">>)
  /\ arg.message = Str(<<"I", "'", "m", " ", "d", "o", "n", "e", ".">>)
  /\ Get(SessionsOf(ret.newState)[2], "outcomeNote") = Str(<<"I", "'", "m", " ", "d", "o", "n", "e", ".">>)

\* C10: log_outcome applied to a state with no sessions and no lastSession
\* returns a reply, leaves sessions empty and leaves lastSession null.
C10_LogOutcomeWithoutSession ==
  (/\ call = "logOutcome"
   /\ SessionsOf(arg.state) = <<>>
   /\ Get(arg.state, "lastSession") = Null) =>
    /\ ret.reply.t = "str"
    /\ SessionsOf(ret.newState) = <<>>
    /\ Get(ret.newState, "lastSession") = Null

\* The text the engine produced, in whichever field of the payload.
Generated(aiResult) == Or(Get(aiResult, "result"), Get(aiResult, "response"))

\* C11: analyze_pattern stores in lastAnalysis the generated text it returns
\* as the reply, so that the record persisted from its state has a non-null
\* lastAnalysis whenever the engine produced text in either payload field;
\* sessions and lastSession stay as they were.
C11_AnalysisIsReply ==
  call = "analyzePattern" =>
    /\ Truthy(Generated(arg.aiResult)) =>
         /\ Get(ret.newState, "lastAnalysis") = ret.reply
         /\ Get(saveStudyState(ret.newState), "lastAnalysis") \notin {Undefined, Null}
    /\ Get(ret.newState, "sessions") = Get(arg.state, "sessions")
    /\ Get(ret.newState, "lastSession") = Get(arg.state, "lastSession")

KeptByChat == {"profile", "lastSession", "sessions", "lastAnalysis"}

\* C12: the record a direct_answer or general_chat request persists has the
\* profile, lastSession, sessions and lastAnalysis of the state it loaded.
C12_ChatKeepsState ==
  \A p \in Procs :
    (pc[p] = "saving" /\ req[p].action \in {"direct_answer", "general_chat"}) =>
      \A f \in KeptByChat : Get(req[p].write, f) = Get(req[p].state, f)

\* A question is answered while a plan is active and logged.
C12_Witness ==
  /\ pc[1] = "saving"
  /\ req[1].action = "direct_answer"
  /\ HasSession(req[1].state)
  /\ SessionsOf(req[1].write) # <<>>

\* C13: a message with an analysis keyword is classified analyze_pattern,
\* with or without a lastSession and whatever other keywords it has.
C13_AnalysisFirst ==
  (call = "chooseAction" /\ Mentions(AnalyzeWords, arg.message.v)) => ret = "analyze_pattern"

\* An analysis keyword beside an outcome and a planning keyword, with a session.
C13_Witness ==
  /\ call = "chooseAction"
  /\ ret = "analyze_pattern"
  /\ HasSession(arg.state)
  /\ Mentions(AnalyzeWords, arg.message.v)
  /\ Mentions(OutcomeWords, arg.message.v)
  /\ Mentions(PlanningWords, arg.message.v)

\* What rules 3 to 8 of the ladder give.
RulesThreeToEight(state, cs) == FirstMatch(SubSeq(Ladder(state, cs), 3, 8))

\* C14: for a message with an outcome keyword and a null lastSession,
\* chooseAction does not return log_outcome and returns what rules 3-8 give.
C14_OutcomeWithoutSession ==
  (call = "chooseAction" /\ Mentions(OutcomeWords, arg.message.v) /\ ~HasSession(arg.state)) =>
    /\ ret # "log_outcome"
    /\ ret = RulesThreeToEight(arg.state, arg.message.v)

\* C14, amended: for a message with an outcome keyword and a null
\* lastSession, chooseAction does not return log_outcome; unless the message
\* also has an analysis keyword (rule 1), it returns what rules 3-8 give.
C14_OutcomeFallsThrough ==
  (call = "chooseAction" /\ Mentions(OutcomeWords, arg.message.v) /\ ~HasSession(arg.state)) =>
    /\ ret # "log_outcome"
    /\ ~Mentions(AnalyzeWords, arg.message.v) => ret = RulesThreeToEight(arg.state, arg.message.v)

\* "finished" without a session falls through to the planning rule.
C14_Witness ==
  /\ call = "chooseAction"
  /\ ~HasSession(arg.state)
  /\ Mentions({<<"f", "i", "n", "i", "s", "h", "e", "d">>}, arg.message.v)
  /\ ~Mentions(AnalyzeWords, arg.message.v)
  /\ ret = "create_plan"

\* C15: a message with a planning keyword that rules 1-2 do not catch is
\* classified revise_plan exactly when lastSession is non-null and
\* create_plan exactly when it is null.
C15_PlanningRule ==
  (/\ call = "chooseAction"
   /\ Mentions(PlanningWords, arg.message.v)
   /\ ~Mentions(AnalyzeWords, arg.message.v)
   /\ ~(Mentions(OutcomeWords, arg.message.v) /\ HasSession(arg.state))) =>
    /\ (ret = "revise_plan") <=> HasSession(arg.state)
    /\ (ret = "create_plan") <=> ~HasSession(arg.state)

\* A planning keyword with an active session.
C15_Witness ==
  /\ call = "chooseAction"
  /\ Mentions(PlanningWords, arg.message.v)
  /\ ~Mentions(AnalyzeWords, arg.message.v)
  /\ ~Mentions(OutcomeWords, arg.message.v)
  /\ HasSession(arg.state)
  /\ ret = "revise_plan"

\* C16: the test of rule 5 holds exactly for the messages whose trimmed,
\* case-folded text is one of the seven affirmations: it holds for "ok",
\* also in upper case or with whitespace around it, and not for "yesterday"
\* or "OK then".
C16_AffirmationExact ==
  call = "affirmation" => (ret <=> (toLowerCase(trim(arg.message.v)) \in Affirmations))

SchemaFields == {"profile", "recentHistory", "lastSession", "sessions", "lastAnalysis"}

\* The shape the schema gives each field of the user state.
WellFormed(f, x) ==
  CASE f = "profile" -> x.t = "obj"
    [] f \in {"recentHistory", "sessions"} -> x.t = "arr"
    [] f = "lastSession" -> x.t \in {"obj", "null"}
    [] f = "lastAnalysis" -> x.t \in {"str", "null"}

\* C18: loading gives, for each field of the schema on its own, the stored
\* value when it is present and well formed and the schema default when it
\* is missing or of another shape; with no record it gives the default state.
C18_LoadDefaults ==
  call = "loadStudyState" =>
    IF arg.state = Absent THEN ret = DefaultState
    ELSE \A f \in SchemaFields :
           Get(ret, f) = IF WellFormed(f, Get(arg.state, f))
                         THEN Get(arg.state, f)
                         ELSE Get(DefaultState, f)

\* What saving the state loaded from a record writes, nothing changed between.
Resaved(record) == saveStudyState(loadStudyState(record))

\* C19: every record written by saveStudyState, by a chat request or by the
\* reset endpoint, is written again identically when it is loaded and saved
\* without change.
C19_RoundTrip ==
  /\ kv # Absent => Resaved(kv) = kv
  /\ \A p \in Procs : pc[p] = "saving" => Resaved(req[p].write) = req[p].write

\* The fallback string of each handler.
Fallback ==
  [createPlan |-> <<"C", "o", "u", "l", "d", " ", "n", "o", "t", " ", "g", "e", "n", "e", "r", "a", "t", "e", " ", "p", "l", "a", "n", ".">>,
   revisePlan |-> <<"C", "o", "u", "l", "d", " ", "n", "o", "t", " ", "r", "e", "v", "i", "s", "e", " ", "p", "l", "a", "n", ".">>,
   logOutcome |-> <<"L", "o", "g", "g", "e", "d", ".">>,
   analyzePattern |-> <<"N", "o", " ", "d", "a", "t", "a", ".">>,
   answerDirectQuestion |-> <<"I", " ", "d", "o", "n", "'", "t", " ", "k", "n", "o", "w", ".">>,
   handleGeneralChat |-> <<"H", "o", "w", " ", "c", "a", "n", " ", "I", " ", "h", "e", "l", "p", " ", "y", "o", "u", " ", "s", "t", "u", "d", "y", " ", "t", "o", "d", "a", "y", "?">>]

LastOf(xs) == xs[Len(xs)]

\* C20: when the engine gives no text, each handler replies with its fallback
\* string and makes its state transition with it: create_plan and revise_plan
\* append a session whose plan is the fallback, log_outcome records the note,
\* analyze_pattern stores the fallback as lastAnalysis.
C20_FallbackProceeds ==
  (call \in DOMAIN Fallback /\ ~Truthy(Generated(arg.aiResult))) =>
    /\ ret.reply = Str(Fallback[call])
    /\ call \in {"createPlan", "revisePlan"} =>
         /\ Len(SessionsOf(ret.newState)) = Len(SessionsOf(arg.state)) + 1
         /\ Get(LastOf(SessionsOf(ret.newState)), "plan") = ret.reply
         /\ Get(ret.newState, "lastSession") = LastOf(SessionsOf(ret.newState))
    /\ call = "logOutcome" =>
         Get(Get(ret.newState, "lastSession"), "outcomeNote") = arg.message
    /\ call = "analyzePattern" => Get(ret.newState, "lastAnalysis") = ret.reply

\* C21: no failure of the engine makes a request fail; a request fails only
\* when the store could not be read, before any call to the engine.
C21_EngineNeverFailsRequest ==
  \A p \in Procs : pc[p] = "failed" => req[p].log = <<"get">>

\* C22: a store failure is a hard failure of the request: after a failed read
\* there is no engine call, no reply and no write, and a request whose write
\* failed has not been answered with a reply.
C22_StoreFailureSurfaced ==
  \A p \in Procs :
    /\ (pc[p] = "failed" /\ req[p].log = <<"get">>) =>
         req[p].reply = Undefined /\ req[p].write = Undefined
    /\ pc[p] = "unsaved" => req[p].reply = Undefined

C24_TurnsAppended ==
  pc[1] = "saving" =>
    LET r == req[1]
    IN /\ IsWindow(HistoryOf(r.write),
                   HistoryOf(r.state) \o <<Turn(<<"u", "s", "e", "r">>, r.message), Turn(<<"a", "s", "s", "i", "s", "t", "a", "n", "t">>, r.reply)>>)
       /\ r.action = chooseAction(r.state, r.message)
       /\ \E aiResult \in RacingResults :
            LET outcome == Dispatch(r.action, r.state, r.message, aiResult, now, now)
            IN /\ outcome.reply = r.reply
               /\ \A f \in {"lastSession", "sessions"} :
                    Get(r.write, f) = JSONDocument(Get(outcome.newState, f))

\* Two turns are appended to a full window by a revise_plan request.
C24_Witness ==
  /\ pc[1] = "saving"
  /\ req[1].action = "revise_plan"
  /\ Len(HistoryOf(req[1].state)) = 8
  /\ Len(HistoryOf(req[1].write)) = 8

SameSession(a, b) == \A f \in {"id", "goal", "action", "plan"} : Get(a, f) = Get(b, f)

\* The log `new` keeps every session of `old` at its index; only the
\* outcomeNote of the last one of `old` may differ.
KeepsSessions(new, old) ==
  /\ Len(new) >= Len(old)
  /\ \A i \in 1..Len(old) :
       /\ SameSession(new[i], old[i])
       /\ i < Len(old) => new[i] = old[i]

\* C25: requests one at a time: the sessions a request persists keep every
\* session of the record persisted before at the same index, with the same
\* id, goal, action and plan; only the outcomeNote of the last may change.
C25_SessionsAppendOnly ==
  (pc[1] = "saving" /\ kv # Absent) =>
    KeepsSessions(SessionsOf(req[1].write), SessionsOf(kv))

\* An outcome is logged on the second of two sessions.
C25_Witness ==
  /\ pc[1] = "saving"
  /\ kv # Absent
  /\ req[1].action = "log_outcome"
  /\ Len(SessionsOf(kv)) = 2
  /\ SessionsOf(req[1].write) # SessionsOf(kv)

\* C26: the empty message is classified general_chat in every state, and the
\* request completes with a reply and the two turns appended.
C26_EmptyMessage ==
  \A p \in Procs :
    (pc[p] \in {"loaded", "saving"} /\ req[p].message = Str(<<>>)) =>
      /\ req[p].action = "general_chat"
      /\ pc[p] = "saving" =>
           /\ req[p].reply.t = "str"
           /\ Len(req[p].reply.v) > 0
           /\ HistoryOf(req[p].write) =
                HistoryOf(req[p].state) \o
                  <<Turn(<<"u", "s", "e", "r">>, Str(<<>>)), Turn(<<"a", "s", "s", "i", "s", "t", "a", "n", "t">>, req[p].reply)>>

\* The empty message is answered while a plan is active.
C26_Witness ==
  \E p \in Procs :
    /\ pc[p] = "saving"
    /\ req[p].message = Str(<<>>)
    /\ HasSession(req[p].state)
    /\ Len(HistoryOf(req[p].write)) = 4

NoteOf(session) == Get(session, "outcomeNote")

\* C27: outcomeNote changes only through log_outcome: a session appended by
\* create_plan or revise_plan has a null outcomeNote, log_outcome sets the
\* note of the last session to its message and no other, and the other
\* actions leave the sessions as they were.
C27_NoteOnlyByLogOutcome ==
  \A p \in Procs :
    pc[p] = "saving" =>
      LET old == SessionsOf(req[p].state)
          new == SessionsOf(req[p].write)
      IN CASE req[p].action \in {"create_plan", "revise_plan"} ->
                /\ SubSeq(new, 1, Len(old)) = old
                /\ NoteOf(LastOf(new)) = Null
           [] req[p].action = "log_outcome" ->
                \A i \in 1..Len(new) :
                  NoteOf(new[i]) # NoteOf(old[i]) =>
                    i = Len(new) /\ NoteOf(new[i]) = req[p].message
           [] OTHER -> new = old

IdsOf(record) == [i \in 1..Len(SessionsOf(record)) |-> Get(SessionsOf(record)[i], "id")]

Distinct(xs) == \A i, j \in 1..Len(xs) : xs[i] = xs[j] => i = j

\* C28: in every persisted record the ids of the sessions are pairwise
\* distinct, for any sequence or interleaving of requests, also when two of
\* them read the same clock value.
C28_SessionIdsUnique ==
  /\ kv # Absent => Distinct(IdsOf(kv))
  /\ \A p \in Procs : pc[p] = "saving" => Distinct(IdsOf(req[p].write))

\* C29: the profile in every record a chat request persists is the profile
\* of the state it loaded, the default profile on a first load.
C29_ProfileKept ==
  \A p \in Procs :
    pc[p] = "saving" =>
      /\ Get(req[p].write, "profile") = Get(req[p].state, "profile")
      /\ Get(req[p].write, "profile") = Get(DefaultState, "profile")

\* A plan is created on the first load of a record that has no profile.
C29_Witness ==
  /\ pc[1] = "saving"
  /\ req[1].action = "create_plan"
  /\ kv = ResetRecord
  /\ ~HasKey(kv, "profile")

\* A lastSession is null or has an id, a goal and a plan.
WholeSession(s) == s = Null \/ \A f \in {"id", "goal", "plan"} : Get(s, f) # Undefined

\* C30: revise_plan and log_outcome are dispatched only on a state whose
\* lastSession is non-null, and no persisted record has a lastSession
\* without id, goal or plan.
C30_SessionActionsNeedSession ==
  /\ \A p \in Procs :
       /\ (pc[p] \in {"loaded", "saving"} /\ req[p].action \in {"revise_plan", "log_outcome"}) =>
            HasSession(req[p].state)
       /\ pc[p] = "saving" => WholeSession(Get(req[p].write, "lastSession"))
  /\ kv # Absent => WholeSession(Get(kv, "lastSession"))

\* An outcome is logged on an active session.
C30_Witness ==
  \E p \in Procs :
    /\ pc[p] = "saving"
    /\ req[p].action = "log_outcome"
    /\ HasSession(req[p].state)
    /\ NoteOf(Get(req[p].write, "lastSession")) = req[p].message

\* lastSession is null exactly when sessions is empty.
NullIffEmpty(record) == (Get(record, "lastSession") = Null) <=> (SessionsOf(record) = <<>>)

\* What does not depend on routing: in the records persisted from the reset
\* record on, lastSession is null exactly when sessions is empty, sessions
\* has one entry per create_plan or revise_plan request processed, and a
\* non-null lastSession stays non-null.
SessionsCounted ==
  /\ NullIffEmpty(kv)
  /\ pc[1] = "idle" => Len(SessionsOf(kv)) = planned
  /\ pc[1] = "saving" =>
       /\ NullIffEmpty(req[1].write)
       /\ Len(SessionsOf(req[1].write)) = planned
       /\ HasSession(req[1].state) => HasSession(req[1].write)

\* A request with a planning keyword in its message, loaded when there is a
\* lastSession.
PlansWithSession ==
  /\ pc[1] \in {"loaded", "saving"}
  /\ HasSession(req[1].state)
  /\ Mentions(PlanningWords, req[1].message.v)

\* C31: from the reset record, requests one at a time: lastSession is null
\* exactly when sessions is empty, sessions.length is the number of
\* create_plan and revise_plan requests processed, a non-null lastSession
\* never becomes null, and every later message with a planning keyword is
\* routed to revise_plan.
C31_PlanningAfterFirstPlan ==
  /\ SessionsCounted
  /\ PlansWithSession => req[1].action = "revise_plan"

\* C31, amended: as C31, but a later message with a planning keyword is
\* routed to revise_plan unless rule 1 or rule 2 catches it first, and never
\* to create_plan.
C31_NeverCreatesAgain ==
  /\ SessionsCounted
  /\ PlansWithSession =>
       /\ req[1].action # "create_plan"
       /\ (~Mentions(AnalyzeWords, req[1].message.v) /\ ~Mentions(OutcomeWords, req[1].message.v))
            => req[1].action = "revise_plan"

\* A plan is revised after its outcome was logged: two sessions.
C31_Witness ==
  /\ pc[1] = "saving"
  /\ req[1].action = "revise_plan"
  /\ NoteOf(Get(req[1].state, "lastSession")) # Null
  /\ planned = 2
  /\ Len(SessionsOf(req[1].write)) = 2

\* chooseAction with rule 5 taken out.
LadderWithoutRule5(state, message) ==
  LET text == toLowerCase(Or(message, Str(<<>>)).v)
      lastSession == Get(state, "lastSession")
  IN IF TestWord(AnalyzeWords, text, FALSE) THEN "analyze_pattern"
     ELSE IF TestWord(OutcomeWords, text, FALSE) /\ Truthy(lastSession) THEN "log_outcome"
     ELSE IF TestWord(PlanningWords, text, FALSE)
          THEN (IF Truthy(lastSession) THEN "revise_plan" ELSE "create_plan")
     ELSE IF TestWord(RevisionWords, text, FALSE) /\ Truthy(lastSession) THEN "revise_plan"
     ELSE IF TestWord(StudyWords, text, FALSE) THEN "create_plan"
     ELSE IF isDirectQuestion(message) THEN "direct_answer"
     ELSE "general_chat"

\* C32: for every state and message chooseAction returns what the ladder
\* without rule 5 returns.
C32_Rule5Redundant ==
  call = "chooseAction" => ret = LadderWithoutRule5(arg.state, arg.message)

\* A message that rule 5 matches, with an active session.
C32_Witness ==
  /\ call = "chooseAction"
  /\ TestWhole(Affirmations, toLowerCase(arg.message.v))
  /\ HasSession(arg.state)
  /\ ret = "general_chat"

\* h has even length, alternates user and assistant from a user turn on, and
\* each pair is a user turn with the reply to it.
Alternates(h) ==
  /\ Len(h) % 2 = 0
  /\ \A i \in 1..Len(h) :
       Get(h[i], "role") = Str(IF i % 2 = 1 THEN <<"u", "s", "e", "r">> ELSE <<"a", "s", "s", "i", "s", "t", "a", "n", "t">>)
  /\ \A k \in 1..(Len(h) \div 2) :
       \E j \in 1..Len(turns) :
         j % 2 = 1 /\ j < Len(turns) /\ turns[j] = h[2 * k - 1] /\ turns[j + 1] = h[2 * k]

\* C33: from an empty recentHistory, requests one at a time: every persisted
\* recentHistory has even length and alternates user, assistant from a user
\* turn on; the trimming to 8 keeps each user turn with its reply.
C33_HistoryAlternates ==
  /\ kv # Absent => Alternates(HistoryOf(kv))
  /\ pc[1] = "saving" => Alternates(HistoryOf(req[1].write))

\* A record of 8 turns written after 5 requests.
C33_Witness ==
  /\ pc[1] = "saving"
  /\ Len(turns) = 10
  /\ Len(HistoryOf(req[1].write)) = 8

\* States that differ from the user states in profile, recentHistory and
\* lastAnalysis.
VariedStates ==
  UserStates \cup
  {PutAll(s, << <<"profile", Obj(<< <<"prefersShortSentences", Bool(FALSE)>> >>)>>,
                <<"recentHistory", Arr(<<Turn(<<"u", "s", "e", "r">>, Str(<<"p", "l", "a", "n">>))>>)>>,
                <<"lastAnalysis", Str(<<"A">>)>> >>) : s \in UserStates}

\* C34: two states that agree on whether lastSession is null get the same
\* action for the same message, whatever else is in them.
C34_DependsOnSessionPresenceOnly ==
  call = "chooseAction" =>
    \A other \in VariedStates :
      (HasSession(other) <=> HasSession(arg.state)) => chooseAction(other, arg.message) = ret

\* A state with a lastSession of the earlier schema and no sessions is
\* classified as the states with a logged session are.
C34_Witness ==
  /\ call = "chooseAction"
  /\ arg.state = LegacyState
  /\ SessionsOf(arg.state) = <<>>
  /\ ret = "revise_plan"
  /\ chooseAction(PlannedState, arg.message) = ret
====
